---- MODULE Spec2Model ----
(***************************************************************************)
(* Bench allocation broker of the radar test framework:                    *)
(*   - ResourceManager   (src/resource_manager/manager.py)                 *)
(*   - HealthChecker     (src/resource_manager/health_check.py)            *)
(*   - PSUFileLock       (src/drivers/psu_driver.py)                       *)
(*   - CoffinInterferenceManager (src/test_cycle.py)                       *)
(* Each component has its own specification over the shared variable list; *)
(* the variables of the other components keep their initial values.        *)
(***************************************************************************)
EXTENDS Integers, Sequences, FiniteSets, TLC

VARIABLES
    \* ---- ResourceManager (manager.py) ----
    hardware_type,            \* bench_id -> hardware_type of self._benches
    bench_states,             \* self._bench_states
    allocations,              \* self._allocations: bench_id -> job_id
    max_concurrent_jobs,      \* self._max_concurrent_jobs
    mark_offline_on_failure,  \* self._mark_offline_on_failure
    \* ---- HealthChecker (health_check.py) ----
    retry_count,              \* self.retry_count
    mock_failures,            \* self._mock_failures: bench_id -> failing checks
    \* ---- history of the calls (not program state) ----
    last,                     \* the last call: operation, arguments, result
    tick,                     \* flips on every call
    grants,                   \* bench_id -> number of grants not yet ended
    marked,                   \* benches a failed health check made OFFLINE
    \* ---- CoffinInterferenceManager (test_cycle.py) ----
    freq_allocations,         \* self._allocations: bench_id -> frequency_ghz
    lock_holders,             \* self._lock_holders: frequency_ghz -> bench_id
    flast,                    \* history: the last call and its result
    ftick,                    \* history: flips on every call
    \* ---- PSUFileLock (psu_driver.py), one lock object per process ----
    lock_file,                \* the file at self.lock_file, or NoFile
    alive,                    \* the pids of the running processes
    pc,                       \* process -> where it is in acquire()/release()
    fd,                       \* process -> self._fd is not None
    pid_read,                 \* process -> pid_str read by _is_stale
    elapsed,                  \* process -> time.time() - start, in sleeps
    reason,                   \* history: process -> why _is_stale answered
    holders,                  \* history: acquire() returned True, no release() since
    path,                     \* history: how the last _scpi_session left its body,
                              \* or "bare" after a release() outside a session
    \* ---- threads calling one ResourceManager ----
    rm_lock,                  \* self._lock: the thread holding it, or Unlocked
    tpc,                      \* thread -> where it is in its call
    call,                     \* thread -> the call it makes, with its arguments
    candidates,                  \* thread -> candidates left in the loop
    tres,                     \* thread -> result of its call
    race,                     \* history: two requests raced for a single bench
    \* ---- one check_bench call, attempt by attempt (health_check.py) ----
    hc,                       \* where the call is, what it has invoked and found
    \* ---- jobs using one ResourceManager ----
    held,                     \* job -> bench_id of the metadata it holds
    \* ---- a thread calling get_bench_status ----
    reader,                   \* where the call is and what it has read
    \* ---- threads calling one CoffinInterferenceManager ----
    callers                   \* thread -> its call, where it is, its result

rmVars == <<hardware_type, bench_states, allocations, max_concurrent_jobs,
            mark_offline_on_failure, retry_count, mock_failures, last, tick, grants,
            marked>>

freqVars == <<freq_allocations, lock_holders, flast, ftick>>

lockVars == <<lock_file, alive, pc, fd, pid_read, elapsed, reason, holders, path>>

threadVars == <<rm_lock, tpc, call, candidates, tres, race>>

healthVars == <<hc>>

jobVars == <<held>>

statusVars == <<reader>>

arbiterVars == <<callers>>

vars == <<rmVars, freqVars, lockVars, threadVars, healthVars, jobVars, statusVars,
          arbiterVars>>

-----------------------------------------------------------------------------
(* Bounds of the model *)

MaxJobs == 2        \* max_concurrent_jobs is drawn from 1..MaxJobs
MaxSleeps == 2      \* timeout_sec of PSUFileLock, in sleeps of acquire()
MaxRetries == 2     \* retry_count of a check_bench call is drawn from 0..MaxRetries

-----------------------------------------------------------------------------
(* Program constants *)

DefaultRetryCount == 2      \* HealthChecker(retry_count=2)

-----------------------------------------------------------------------------
(* Inventory and inputs *)

\* The bench ids of the inventory, in the iteration order of self._benches.
BenchOrder == <<"BENCH-001", "BENCH-002", "BENCH-003">>

Benches == {BenchOrder[i] : i \in 1..Len(BenchOrder)}

UnknownBench == "BENCH-999"

HwTypes == {"radar_x_band", "radar_s_band"}

\* A per-position tuple of the inventory as a table keyed by bench id.
ByBench(t) ==
    [b \in Benches |-> t[CHOOSE i \in 1..Len(BenchOrder) : BenchOrder[i] = b]]

BenchState == {"available", "busy", "maintenance", "offline"}

\* "state" strings a bench record may declare.
DeclaredStates == {"available", "Busy", "MAINTENANCE", "offline", "retired"}

JobIds == {"", "JOB-1"}

CheckNames == <<"ping_uut", "verify_psu", "ptp_connectivity">>

CheckSet == {CheckNames[i] : i \in 1..Len(CheckNames)}

\* The inventories of the model: the hardware_type of the three benches and
\* the failing checks configured for them with set_mock_failure before the
\* manager is built, both by position in the inventory.
Inventories ==
    LET XXS == <<"radar_x_band", "radar_x_band", "radar_s_band">>
        XXX == <<"radar_x_band", "radar_x_band", "radar_x_band">>
    IN  { [types |-> XXS, failing |-> <<{}, {}, {}>>],
          [types |-> XXS, failing |-> <<{"ping_uut"}, {}, {}>>],
          [types |-> XXS, failing |-> <<{}, {"ping_uut"}, {}>>],
          [types |-> XXS, failing |-> <<{"ping_uut"}, {"verify_psu"}, {}>>],
          [types |-> XXX, failing |-> <<{"ping_uut"}, {"verify_psu"}, {}>>],
          [types |-> XXX, failing |-> <<{"ping_uut"}, {"verify_psu"},
                                        {"ptp_connectivity", "ping_uut"}>>] }

NoBench == "none"

-----------------------------------------------------------------------------
(* ResourceManager._load_benches *)

\* str.lower() on the declared state strings.
Lower(s) ==
    CASE s = "Busy" -> "busy"
      [] s = "MAINTENANCE" -> "maintenance"
      [] OTHER -> s

\* BenchState(state_str), ValueError caught: unknown strings become OFFLINE.
ParseState(s) ==
    IF Lower(s) \in BenchState THEN Lower(s) ELSE "offline"

LoadBenches(declared) == [b \in Benches |-> ParseState(declared[b])]

-----------------------------------------------------------------------------
(* HealthChecker *)

\* _check_ping_uut / _check_verify_psu / _check_ptp_connectivity in mock mode.
CheckFn(check, b) == check \notin mock_failures[b]

\* _run_check_with_retry: attempts 1..retry_count, True on the first pass.
RECURSIVE Attempt(_, _, _)
Attempt(check, b, attempt) ==
    IF attempt > retry_count THEN FALSE
    ELSE IF CheckFn(check, b) THEN TRUE
    ELSE Attempt(check, b, attempt + 1)

RunCheckWithRetry(check, b) == Attempt(check, b, 1)

\* check_bench: all three checks run; healthy is their conjunction.
CheckBench(b) ==
    LET checks == [c \in CheckSet |-> RunCheckWithRetry(c, b)]
    IN  [bench_id |-> b,
         checks   |-> checks,
         healthy  |-> \A c \in CheckSet : checks[c]]

-----------------------------------------------------------------------------
(* ResourceManager helpers *)

CurrentAllocations == Cardinality(DOMAIN allocations)

\* The concurrent job limit of request_resource.
CeilingOffByOne == CurrentAllocations > max_concurrent_jobs

CeilingReached == CurrentAllocations >= max_concurrent_jobs

\* _find_candidates: AVAILABLE benches of the type, in inventory order.
IsCandidateAnyState(b, hw) == hardware_type[b] = hw

IsCandidate(b, hw) ==
    /\ hardware_type[b] = hw
    /\ bench_states[b] = "available"

FindCandidates(hw) == SelectSeq(BenchOrder, LAMBDA b : IsCandidate(b, hw))

\* _get_available_types
GetInventoryTypes == {hardware_type[b] : b \in Benches}

GetAvailableTypes ==
    {hardware_type[b] : b \in {x \in Benches : bench_states[x] = "available"}}

EffectiveJobId(job_id, b) == IF job_id = "" THEN "auto" ELSE job_id

\* What a failed health check does to the bench state table.
MarkFailedNever(states, b) == states

MarkFailed(states, b) ==
    IF mark_offline_on_failure THEN [states EXCEPT ![b] = "offline"] ELSE states

\* Whether the candidate is admitted (health check passed, or skipped).
AdmitUnchecked(b, skip) == TRUE

Admit(b, skip) == skip \/ CheckBench(b).healthy

\* The candidate loop of request_resource: the first admitted candidate is
\* granted; the failing ones before it are marked; the rest is not looked at.
RECURSIVE TryCandidates(_, _, _, _)
TryCandidates(cands, states, checked, skip) ==
    IF cands = <<>>
    THEN [states |-> states, granted |-> NoBench, checked |-> checked]
    ELSE LET b == Head(cands)
             seen == IF skip THEN checked ELSE Append(checked, b)
         IN  IF Admit(b, skip)
             THEN [states  |-> [states EXCEPT ![b] = "busy"],
                   granted |-> b,
                   checked |-> seen]
             ELSE TryCandidates(Tail(cands), MarkFailed(states, b), seen, skip)

Range(seq) == {seq[i] : i \in 1..Len(seq)}

\* dict.pop(key): the table without the key.
KeepAll(f, b) == f

Without(f, b) == [x \in DOMAIN f \ {b} |-> f[x]]

NoCall ==
    [op |-> "none", hw |-> "", bench |-> NoBench, skip |-> FALSE, state |-> "",
     result |-> "", checked |-> <<>>, types |-> {}, health |-> "none"]

-----------------------------------------------------------------------------
(* ResourceManager operations, each one whole call (the calls are serialized *)
(* by self._lock).                                                           *)

RequestCeiling(hw, skip) ==
    /\ CeilingReached
    /\ last' = [NoCall EXCEPT !.op = "request", !.hw = hw, !.skip = skip,
                              !.result = "limit"]
    /\ UNCHANGED <<bench_states, allocations, grants, marked>>

RequestNoCandidate(hw, skip) ==
    /\ ~CeilingReached
    /\ FindCandidates(hw) = <<>>
    /\ last' = [NoCall EXCEPT !.op = "request", !.hw = hw, !.skip = skip,
                              !.result = "no_available",
                              !.types = GetAvailableTypes]
    /\ UNCHANGED <<bench_states, allocations, grants, marked>>

RequestScan(hw, job_id, skip) ==
    /\ ~CeilingReached
    /\ FindCandidates(hw) # <<>>
    /\ LET r == TryCandidates(FindCandidates(hw), bench_states, <<>>, skip)
       IN  /\ bench_states' = r.states
           /\ marked' = marked \cup {b \in Range(r.checked) :
                                        r.states[b] = "offline"}
           /\ IF r.granted # NoBench
              THEN /\ allocations' =
                        Without(allocations, r.granted)
                        @@ (r.granted :> EffectiveJobId(job_id, r.granted))
                   /\ grants' = [grants EXCEPT ![r.granted] =
                                    IF @ < 2 THEN @ + 1 ELSE @]
                   /\ last' = [NoCall EXCEPT
                                 !.op = "request", !.hw = hw, !.skip = skip,
                                 !.result = "granted", !.bench = r.granted,
                                 !.checked = r.checked,
                                 !.health = IF skip THEN "none" ELSE "healthy"]
              ELSE /\ UNCHANGED <<allocations, grants>>
                   /\ last' = [NoCall EXCEPT
                                 !.op = "request", !.hw = hw, !.skip = skip,
                                 !.result = "all_unhealthy",
                                 !.checked = r.checked]

request_resource(hw, job_id, skip) ==
    /\ \/ RequestCeiling(hw, skip)
       \/ RequestNoCandidate(hw, skip)
       \/ RequestScan(hw, job_id, skip)
    /\ tick' = ~tick
    /\ UNCHANGED <<hardware_type, max_concurrent_jobs, mark_offline_on_failure,
                   retry_count, mock_failures>>

release_resource(b) ==
    /\ IF b \notin DOMAIN allocations
       THEN /\ last' = [NoCall EXCEPT !.op = "release", !.bench = b,
                                      !.result = "false"]
            /\ UNCHANGED <<bench_states, allocations, grants, marked>>
       ELSE /\ allocations' = Without(allocations, b)
            /\ bench_states' = [bench_states EXCEPT ![b] = "available"]
            /\ grants' = [grants EXCEPT ![b] = 0]
            /\ UNCHANGED marked
            /\ last' = [NoCall EXCEPT !.op = "release", !.bench = b,
                                      !.result = "true"]
    /\ tick' = ~tick
    /\ UNCHANGED <<hardware_type, max_concurrent_jobs, mark_offline_on_failure,
                   retry_count, mock_failures>>

set_bench_state(b, state) ==
    /\ IF b \notin Benches
       THEN /\ last' = [NoCall EXCEPT !.op = "set_state", !.bench = b,
                                      !.state = state, !.result = "false"]
            /\ UNCHANGED <<bench_states, allocations, grants, marked>>
       ELSE LET old_state == bench_states[b]
            IN  /\ bench_states' = [bench_states EXCEPT ![b] = state]
                /\ marked' = marked \ {b}
                /\ IF old_state = "busy" /\ state # "busy"
                   THEN /\ allocations' = Without(allocations, b)
                        /\ grants' = [grants EXCEPT ![b] = 0]
                   ELSE UNCHANGED <<allocations, grants>>
                /\ last' = [NoCall EXCEPT !.op = "set_state", !.bench = b,
                                          !.state = state, !.result = "true"]
    /\ tick' = ~tick
    /\ UNCHANGED <<hardware_type, max_concurrent_jobs, mark_offline_on_failure,
                   retry_count, mock_failures>>

-----------------------------------------------------------------------------
(* ResourceManager.__init__ *)

InitRM ==
    /\ \E inv \in Inventories :
          /\ hardware_type = ByBench(inv.types)
          /\ mock_failures = ByBench(inv.failing)
    /\ \E declared \in [Benches -> DeclaredStates] :
          bench_states = LoadBenches(declared)
    /\ allocations = <<>>
    /\ max_concurrent_jobs \in 1..MaxJobs
    /\ mark_offline_on_failure \in BOOLEAN
    /\ retry_count \in {0, DefaultRetryCount}
    /\ last = NoCall
    /\ tick = FALSE
    /\ grants = [b \in Benches |-> 0]
    /\ marked = {}

\* The manager before any call, with the sample inventory; the state the
\* manager stays in under the specifications of the other components.
IdleRM ==
    /\ hardware_type = ByBench(<<"radar_x_band", "radar_x_band", "radar_s_band">>)
    /\ bench_states = [b \in Benches |-> "available"]
    /\ allocations = <<>>
    /\ max_concurrent_jobs = MaxJobs
    /\ mark_offline_on_failure = TRUE
    /\ retry_count = DefaultRetryCount
    /\ mock_failures = [b \in Benches |-> {}]
    /\ last = NoCall
    /\ tick = FALSE
    /\ grants = [b \in Benches |-> 0]
    /\ marked = {}

Request ==
    /\ \E hw \in HwTypes, job_id \in JobIds, skip \in BOOLEAN :
          request_resource(hw, job_id, skip)
    /\ UNCHANGED <<freqVars, lockVars, threadVars, healthVars, jobVars, statusVars, arbiterVars>>

Release ==
    /\ \E b \in Benches \cup {UnknownBench} : release_resource(b)
    /\ UNCHANGED <<freqVars, lockVars, threadVars, healthVars, jobVars, statusVars, arbiterVars>>

SetBenchState ==
    /\ \/ \E b \in Benches, s \in BenchState : set_bench_state(b, s)
       \/ set_bench_state(UnknownBench, "maintenance")
    /\ UNCHANGED <<freqVars, lockVars, threadVars, healthVars, jobVars, statusVars, arbiterVars>>

-----------------------------------------------------------------------------
(* CoffinInterferenceManager (test_cycle.py) *)

Freqs == {"76.1", "77.0"}

NoFreqCall ==
    [op |-> "none", bench |-> NoBench, freq |-> "", result |-> FALSE, held |-> {}]

\* The frequencies whose recorded holder is the bench.
HeldBy(b) == {f \in DOMAIN lock_holders : lock_holders[f] = b}

\* request_frequency: refused when another bench holds the frequency.
HeldByOther(b, f) == f \in DOMAIN lock_holders /\ lock_holders[f] # b

request_frequency(b, f) ==
    /\ IF HeldByOther(b, f)
       THEN /\ flast' = [NoFreqCall EXCEPT !.op = "request", !.bench = b,
                                           !.freq = f, !.result = FALSE]
            /\ UNCHANGED <<freq_allocations, lock_holders>>
       ELSE /\ lock_holders' = (f :> b) @@ lock_holders
            /\ freq_allocations' = (b :> f) @@ freq_allocations
            /\ flast' = [NoFreqCall EXCEPT !.op = "request", !.bench = b,
                                           !.freq = f, !.result = TRUE]
    /\ ftick' = ~ftick

ReleaseEveryFrequency(b) ==
    /\ lock_holders' = <<>>
    /\ freq_allocations' = Without(freq_allocations, b)
    /\ flast' = [NoFreqCall EXCEPT !.op = "release", !.bench = b,
                                   !.held = HeldBy(b)]
    /\ ftick' = ~ftick

release_frequency(b) ==
    /\ IF b \in DOMAIN freq_allocations
       THEN LET freq == freq_allocations[b]
            IN  /\ lock_holders' =
                      IF freq \in DOMAIN lock_holders /\ lock_holders[freq] = b
                      THEN Without(lock_holders, freq)
                      ELSE lock_holders
                /\ freq_allocations' = Without(freq_allocations, b)
       ELSE UNCHANGED <<freq_allocations, lock_holders>>
    /\ flast' = [NoFreqCall EXCEPT !.op = "release", !.bench = b,
                                   !.held = HeldBy(b)]
    /\ ftick' = ~ftick

\* is_frequency_available
is_frequency_available(f) == f \notin DOMAIN lock_holders

\* get_active_allocations (every stored record has in_use = True)
get_active_allocations == freq_allocations

\* CoffinInterferenceManager.__init__
InitFreq ==
    /\ freq_allocations = <<>>
    /\ lock_holders = <<>>
    /\ flast = NoFreqCall
    /\ ftick = FALSE

RequestFrequency ==
    /\ \E b \in Benches, f \in Freqs : request_frequency(b, f)
    /\ UNCHANGED <<rmVars, lockVars, threadVars, healthVars, jobVars, statusVars, arbiterVars>>

ReleaseFrequency ==
    /\ \E b \in Benches : release_frequency(b)
    /\ UNCHANGED <<rmVars, lockVars, threadVars, healthVars, jobVars, statusVars, arbiterVars>>

-----------------------------------------------------------------------------
(* PSUFileLock (psu_driver.py): several processes, each with its own lock  *)
(* object on the same lock file. A step is one system call.                *)

\* The processes that call acquire() and release(); a pid is its process.
Procs == {"host1", "host2"}

\* The pid of a process that ended before, and of a running process of
\* another user, which os.kill(pid, 0) may not signal.
GonePid == "gone"
OtherUserPid == "other"

NoFile == [exists |-> FALSE]

File(creator, content, readable) ==
    [exists |-> TRUE, creator |-> creator, content |-> content,
     readable |-> readable]

\* What may be at the lock path when the processes start.
LeftoverFiles ==
    { NoFile,
      File(GonePid, GonePid, TRUE),         \* holder crashed: stale
      File(GonePid, "", TRUE),              \* crashed before writing its pid
      File(GonePid, "not-a-pid", TRUE),     \* garbage content
      File(OtherUserPid, OtherUserPid, TRUE),   \* held by another user's process
      File(OtherUserPid, OtherUserPid, FALSE) } \* the same, not readable by us

IsPid(str) == str \in Procs \cup {GonePid, OtherUserPid}

\* os.kill(pid, 0)
Kill0(pid) ==
    IF pid \notin alive THEN "ProcessLookupError"
    ELSE IF pid = OtherUserPid THEN "PermissionError"
    ELSE "ok"

\* _is_stale, first half: open and read the file, strip, int(). The answer
\* is "probe" when a pid was read, else the verdict with its reason.
ReadVerdict ==
    IF ~lock_file.exists THEN [stale |-> TRUE, why |-> "unreadable"]
    ELSE IF ~lock_file.readable THEN [stale |-> TRUE, why |-> "unreadable"]
    ELSE IF lock_file.content = "" THEN [stale |-> TRUE, why |-> "empty"]
    ELSE IF ~IsPid(lock_file.content) THEN [stale |-> TRUE, why |-> "not_a_number"]
    ELSE [stale |-> FALSE, why |-> "probe"]

\* _is_stale, second half: the verdict after os.kill(pid, 0).
ProbeVerdict(pid) ==
    CASE Kill0(pid) = "ok" -> [stale |-> FALSE, why |-> "alive"]
      [] Kill0(pid) = "ProcessLookupError" -> [stale |-> TRUE, why |-> "dead"]
      [] Kill0(pid) = "PermissionError" -> [stale |-> TRUE, why |-> "permission"]

\* acquire() is entered: start = time.time().
StartAcquire(p) ==
    /\ pc[p] = "idle"
    /\ pc' = [pc EXCEPT ![p] = "try"]
    /\ elapsed' = [elapsed EXCEPT ![p] = 0]
    /\ path' = [path EXCEPT ![p] = ""]
    /\ reason' = [reason EXCEPT ![p] = ""]
    /\ UNCHANGED <<lock_file, alive, fd, pid_read, holders>>
    /\ UNCHANGED <<rmVars, freqVars, threadVars, healthVars, jobVars, statusVars, arbiterVars>>

\* The loop test failed: acquire() returns False and _scpi_session raises
\* TimeoutError.
AcquireTimeout(p) ==
    /\ pc[p] = "try"
    /\ elapsed[p] >= MaxSleeps
    /\ pc' = [pc EXCEPT ![p] = "idle"]
    /\ path' = [path EXCEPT ![p] = "timeout"]
    /\ elapsed' = [elapsed EXCEPT ![p] = 0]
    /\ pid_read' = [pid_read EXCEPT ![p] = ""]
    /\ UNCHANGED <<lock_file, alive, fd, reason, holders>>
    /\ UNCHANGED <<rmVars, freqVars, threadVars, healthVars, jobVars, statusVars, arbiterVars>>

\* os.open(O_CREAT | O_EXCL | O_WRONLY): creates the file, or FileExistsError.
TryOpen(p) ==
    /\ pc[p] = "try"
    /\ elapsed[p] < MaxSleeps
    /\ IF lock_file.exists
       THEN /\ pc' = [pc EXCEPT ![p] = "read"]
            /\ UNCHANGED <<lock_file, fd>>
       ELSE /\ lock_file' = File(p, "", TRUE)
            /\ fd' = [fd EXCEPT ![p] = TRUE]
            /\ pc' = [pc EXCEPT ![p] = "write"]
    /\ UNCHANGED <<alive, pid_read, elapsed, reason, holders, path>>
    /\ UNCHANGED <<rmVars, freqVars, threadVars, healthVars, jobVars, statusVars, arbiterVars>>

\* os.open raised another error: logged, time.sleep(1), next iteration.
OpenError(p) ==
    /\ pc[p] = "try"
    /\ elapsed[p] < MaxSleeps
    /\ pc' = [pc EXCEPT ![p] = "sleep"]
    /\ UNCHANGED <<lock_file, alive, fd, pid_read, elapsed, reason, holders, path>>
    /\ UNCHANGED <<rmVars, freqVars, threadVars, healthVars, jobVars, statusVars, arbiterVars>>

\* os.write(self._fd, pid): into the file this process created, which may
\* no longer be the one at the lock path; acquire() returns True.
WritePid(p) ==
    /\ pc[p] = "write"
    /\ lock_file' = IF lock_file.exists /\ lock_file.creator = p
                    THEN [lock_file EXCEPT !.content = p]
                    ELSE lock_file
    /\ pc' = [pc EXCEPT ![p] = "held"]
    /\ holders' = holders \cup {p}
    /\ elapsed' = [elapsed EXCEPT ![p] = 0]
    /\ UNCHANGED <<alive, fd, pid_read, reason, path>>
    /\ UNCHANGED <<rmVars, freqVars, threadVars, healthVars, jobVars, statusVars, arbiterVars>>

\* Where acquire() goes with the answer of _is_stale.
AlwaysWait(v) == "sleep"

AfterVerdict(v) == IF v.stale THEN "force" ELSE "sleep"

\* _is_stale: open(self.lock_file), read, strip, int.
ReadLockFile(p) ==
    /\ pc[p] = "read"
    /\ IF ReadVerdict.why = "probe"
       THEN /\ pid_read' = [pid_read EXCEPT ![p] = lock_file.content]
            /\ pc' = [pc EXCEPT ![p] = "probe"]
            /\ UNCHANGED reason
       ELSE /\ reason' = [reason EXCEPT ![p] = ReadVerdict.why]
            /\ pc' = [pc EXCEPT ![p] = AfterVerdict(ReadVerdict)]
            /\ UNCHANGED pid_read
    /\ UNCHANGED <<lock_file, alive, fd, elapsed, holders, path>>
    /\ UNCHANGED <<rmVars, freqVars, threadVars, healthVars, jobVars, statusVars, arbiterVars>>

\* _is_stale: os.kill(pid, 0).
ProbeHolder(p) ==
    /\ pc[p] = "probe"
    /\ reason' = [reason EXCEPT ![p] = ProbeVerdict(pid_read[p]).why]
    /\ pc' = [pc EXCEPT ![p] = AfterVerdict(ProbeVerdict(pid_read[p]))]
    /\ UNCHANGED <<lock_file, alive, fd, pid_read, elapsed, holders, path>>
    /\ UNCHANGED <<rmVars, freqVars, threadVars, healthVars, jobVars, statusVars, arbiterVars>>

\* _force_release: os.remove(self.lock_file), errors swallowed; continue.
ForceRelease(p) ==
    /\ pc[p] = "force"
    /\ lock_file' = NoFile
    /\ pc' = [pc EXCEPT ![p] = "try"]
    /\ UNCHANGED <<alive, fd, pid_read, elapsed, reason, holders, path>>
    /\ UNCHANGED <<rmVars, freqVars, threadVars, healthVars, jobVars, statusVars, arbiterVars>>

\* time.sleep(0.5) after a lock found held (time.sleep(1) after an error).
Sleep(p) ==
    /\ pc[p] = "sleep"
    /\ elapsed' = [elapsed EXCEPT ![p] = IF @ < MaxSleeps THEN @ + 1 ELSE @]
    /\ pc' = [pc EXCEPT ![p] = "try"]
    /\ UNCHANGED <<lock_file, alive, fd, pid_read, reason, holders, path>>
    /\ UNCHANGED <<rmVars, freqVars, threadVars, healthVars, jobVars, statusVars, arbiterVars>>

\* The clock moves on while acquire() is between two loop tests.
TimePasses(p) ==
    /\ pc[p] \in {"try", "read", "probe", "force"}
    /\ elapsed[p] < MaxSleeps
    /\ elapsed' = [elapsed EXCEPT ![p] = @ + 1]
    /\ UNCHANGED <<lock_file, alive, pc, fd, pid_read, reason, holders, path>>
    /\ UNCHANGED <<rmVars, freqVars, threadVars, healthVars, jobVars, statusVars, arbiterVars>>

\* _scpi_session after acquire() returned True: self._open_socket() connects
\* and the body runs, or it raises and the finally clause is entered.
OpenSocket(p) ==
    /\ pc[p] = "held"
    /\ \/ pc' = [pc EXCEPT ![p] = "body"] /\ UNCHANGED path
       \/ /\ pc' = [pc EXCEPT ![p] = "finally"]
          /\ path' = [path EXCEPT ![p] = "socket"]
    /\ UNCHANGED <<lock_file, alive, fd, pid_read, elapsed, reason, holders>>
    /\ UNCHANGED <<rmVars, freqVars, threadVars, healthVars, jobVars, statusVars, arbiterVars>>

\* The body of the with statement completes or raises: finally is entered.
Body(p) ==
    /\ pc[p] = "body"
    /\ pc' = [pc EXCEPT ![p] = "finally"]
    /\ \E how \in {"normal", "exception"} : path' = [path EXCEPT ![p] = how]
    /\ UNCHANGED <<lock_file, alive, fd, pid_read, elapsed, reason, holders>>
    /\ UNCHANGED <<rmVars, freqVars, threadVars, healthVars, jobVars, statusVars, arbiterVars>>

\* release(): os.close(self._fd) when there is one. It is called by the
\* finally clause of _scpi_session (after _close_socket), or on a lock
\* object that holds nothing: a second time, or without an acquire().
ReleaseClose(p) ==
    /\ pc[p] \in {"finally", "idle"}
    /\ fd' = [fd EXCEPT ![p] = FALSE]
    /\ pc' = [pc EXCEPT ![p] = "exists"]
    /\ holders' = holders \ {p}
    /\ path' = [path EXCEPT ![p] = IF pc[p] = "idle" THEN "bare" ELSE @]
    /\ pid_read' = [pid_read EXCEPT ![p] = ""]
    /\ reason' = [reason EXCEPT ![p] = ""]
    /\ UNCHANGED <<lock_file, alive, elapsed>>
    /\ UNCHANGED <<rmVars, freqVars, threadVars, healthVars, jobVars, statusVars, arbiterVars>>

\* release(): os.path.exists(self.lock_file).
ReleaseLeavesFile(p) ==
    /\ pc[p] = "exists"
    /\ pc' = [pc EXCEPT ![p] = "idle"]
    /\ UNCHANGED <<lock_file, alive, fd, pid_read, elapsed, reason, holders, path>>
    /\ UNCHANGED <<rmVars, freqVars, threadVars, healthVars, jobVars, statusVars, arbiterVars>>

ReleaseExists(p) ==
    /\ pc[p] = "exists"
    /\ pc' = [pc EXCEPT ![p] = IF lock_file.exists THEN "remove" ELSE "idle"]
    /\ UNCHANGED <<lock_file, alive, fd, pid_read, elapsed, reason, holders, path>>
    /\ UNCHANGED <<rmVars, freqVars, threadVars, healthVars, jobVars, statusVars, arbiterVars>>

\* release(): os.remove(self.lock_file); an error is logged and swallowed.
ReleaseRemove(p) ==
    /\ pc[p] = "remove"
    /\ lock_file' = NoFile
    /\ pc' = [pc EXCEPT ![p] = "idle"]
    /\ UNCHANGED <<alive, fd, pid_read, elapsed, reason, holders, path>>
    /\ UNCHANGED <<rmVars, freqVars, threadVars, healthVars, jobVars, statusVars, arbiterVars>>

\* The process ends without releasing (killed, power loss).
Crash(p) ==
    /\ pc[p] # "crashed"
    /\ alive' = alive \ {p}
    /\ pc' = [pc EXCEPT ![p] = "crashed"]
    /\ fd' = [fd EXCEPT ![p] = FALSE]
    /\ holders' = holders \ {p}
    /\ pid_read' = [pid_read EXCEPT ![p] = ""]
    /\ elapsed' = [elapsed EXCEPT ![p] = 0]
    /\ reason' = [reason EXCEPT ![p] = ""]
    /\ path' = [path EXCEPT ![p] = ""]
    /\ UNCHANGED lock_file
    /\ UNCHANGED <<rmVars, freqVars, threadVars, healthVars, jobVars, statusVars, arbiterVars>>

\* PSUFileLock.__init__ in every process; lock_file is what is on disk.
InitLock ==
    /\ lock_file \in LeftoverFiles
    /\ alive = Procs \cup {OtherUserPid}
    /\ pc = [p \in Procs |-> "idle"]
    /\ fd = [p \in Procs |-> FALSE]
    /\ pid_read = [p \in Procs |-> ""]
    /\ elapsed = [p \in Procs |-> 0]
    /\ reason = [p \in Procs |-> ""]
    /\ holders = {}
    /\ path = [p \in Procs |-> ""]

\* No lock object exists: the state of the lock under the other specifications.
IdleLock ==
    /\ lock_file = NoFile
    /\ alive = Procs \cup {OtherUserPid}
    /\ pc = [p \in Procs |-> "idle"]
    /\ fd = [p \in Procs |-> FALSE]
    /\ pid_read = [p \in Procs |-> ""]
    /\ elapsed = [p \in Procs |-> 0]
    /\ reason = [p \in Procs |-> ""]
    /\ holders = {}
    /\ path = [p \in Procs |-> ""]

Acquire(p) ==
    \/ StartAcquire(p)
    \/ AcquireTimeout(p)
    \/ TryOpen(p)
    \/ OpenError(p)
    \/ WritePid(p)
    \/ ReadLockFile(p)
    \/ ProbeHolder(p)
    \/ ForceRelease(p)
    \/ Sleep(p)
    \/ TimePasses(p)

Session(p) == OpenSocket(p) \/ Body(p)

\* The steps an acquire() in progress takes by itself in a running process.
Run(p) ==
    \/ AcquireTimeout(p)
    \/ TryOpen(p)
    \/ WritePid(p)
    \/ ReadLockFile(p)
    \/ ProbeHolder(p)
    \/ ForceRelease(p)
    \/ Sleep(p)

ReleaseLock(p) == ReleaseClose(p) \/ ReleaseExists(p) \/ ReleaseRemove(p)

LockStep ==
    \E p \in Procs : Acquire(p) \/ Session(p) \/ ReleaseLock(p) \/ Crash(p)

-----------------------------------------------------------------------------
(* Threads calling request_resource, release_resource and set_bench_state  *)
(* of one ResourceManager. A step is one statement of the call; every call *)
(* runs inside "with self._lock".                                          *)

Threads == {"T1", "T2"}

Unlocked == "unlocked"

\* Inside "with self._lock".
Locked == {"limit", "find", "check", "busy", "record", "pop", "available",
           "set", "discard", "unlock"}

NoThreadCall ==
    [op |-> "none", hw |-> "", bench |-> NoBench, skip |-> FALSE, state |-> ""]

NoResult == [result |-> "", bench |-> NoBench]

NoRace ==
    [on |-> FALSE, hw |-> "", bench |-> NoBench, below |-> FALSE,
     healthy |-> FALSE]

\* The calls a thread may make.
ThreadCalls ==
    {[NoThreadCall EXCEPT !.op = "request", !.hw = hw, !.skip = skip] :
        hw \in HwTypes, skip \in BOOLEAN}
    \cup {[NoThreadCall EXCEPT !.op = "release", !.bench = b] : b \in Benches}
    \cup {[NoThreadCall EXCEPT !.op = "set_state", !.bench = b, !.state = st] :
            b \in Benches, st \in {"maintenance"}}

\* threading.Lock.acquire: only a free lock is taken.
LockNotChecked == TRUE

LockFree == rm_lock = Unlocked

\* Two request_resource calls for the same type are pending, nothing else
\* runs, and exactly one bench of the type is AVAILABLE.
RaceAt(t, c) ==
    IF /\ c.op = "request"
       /\ rm_lock = Unlocked
       /\ \A u \in Threads \ {t} :
             tpc[u] = "wait" /\ call[u].op = "request" /\ call[u].hw = c.hw
       /\ Len(FindCandidates(c.hw)) = 1
    THEN [on |-> TRUE, hw |-> c.hw, bench |-> FindCandidates(c.hw)[1],
          below |-> ~CeilingReached,
          healthy |-> CheckBench(FindCandidates(c.hw)[1]).healthy]
    ELSE NoRace

\* The thread calls the manager and waits for self._lock.
Issue(t, c) ==
    /\ tpc[t] = "idle"
    /\ tpc' = [tpc EXCEPT ![t] = "wait"]
    /\ call' = [call EXCEPT ![t] = c]
    /\ tres' = [tres EXCEPT ![t] = NoResult]
    /\ race' = RaceAt(t, c)
    /\ UNCHANGED <<rm_lock, candidates, bench_states, allocations, grants, marked>>

\* with self._lock: entered.
EnterLock(t) ==
    /\ tpc[t] = "wait"
    /\ LockFree
    /\ rm_lock' = t
    /\ tpc' = [tpc EXCEPT ![t] =
                 CASE call[t].op = "request" -> "limit"
                   [] call[t].op = "release" -> "pop"
                   [] call[t].op = "set_state" -> "set"]
    /\ UNCHANGED <<call, candidates, tres, race, bench_states, allocations, grants, marked>>

\* The call raises or returns False inside "with self._lock".
FailHoldingLock(t, why) ==
    /\ tres' = [tres EXCEPT ![t] = [result |-> why, bench |-> NoBench]]
    /\ tpc' = [tpc EXCEPT ![t] = "idle"]

Fail(t, why) ==
    /\ tres' = [tres EXCEPT ![t] = [result |-> why, bench |-> NoBench]]
    /\ tpc' = [tpc EXCEPT ![t] = "unlock"]

\* request_resource: the concurrent job limit.
CheckLimit(t) ==
    /\ tpc[t] = "limit"
    /\ IF CeilingReached
       THEN Fail(t, "limit")
       ELSE tpc' = [tpc EXCEPT ![t] = "find"] /\ UNCHANGED tres
    /\ UNCHANGED <<rm_lock, call, candidates, race, bench_states, allocations, grants, marked>>

\* request_resource: _find_candidates.
FindStep(t) ==
    /\ tpc[t] = "find"
    /\ candidates' = [candidates EXCEPT ![t] = FindCandidates(call[t].hw)]
    /\ IF FindCandidates(call[t].hw) = <<>>
       THEN Fail(t, "no_available")
       ELSE tpc' = [tpc EXCEPT ![t] = "check"] /\ UNCHANGED tres
    /\ UNCHANGED <<rm_lock, call, race, bench_states, allocations, grants, marked>>

\* request_resource: one turn of the candidate loop, health check included.
CheckStep(t) ==
    /\ tpc[t] = "check"
    /\ IF candidates[t] = <<>>
       THEN /\ Fail(t, "all_unhealthy")
            /\ UNCHANGED <<candidates, bench_states, marked>>
       ELSE IF Admit(Head(candidates[t]), call[t].skip)
            THEN /\ tpc' = [tpc EXCEPT ![t] = "busy"]
                 /\ UNCHANGED <<candidates, tres, bench_states, marked>>
            ELSE /\ bench_states' = MarkFailed(bench_states, Head(candidates[t]))
                 /\ marked' = IF mark_offline_on_failure
                               THEN marked \cup {Head(candidates[t])}
                               ELSE marked
                 /\ candidates' = [candidates EXCEPT ![t] = Tail(@)]
                 /\ UNCHANGED <<tpc, tres>>
    /\ UNCHANGED <<rm_lock, call, race, allocations, grants>>

\* request_resource: self._bench_states[bench_id] = BenchState.BUSY
BusyStep(t) ==
    /\ tpc[t] = "busy"
    /\ bench_states' = [bench_states EXCEPT ![Head(candidates[t])] = "busy"]
    /\ tpc' = [tpc EXCEPT ![t] = "record"]
    /\ UNCHANGED <<rm_lock, call, candidates, tres, race, allocations, grants, marked>>

\* request_resource: self._allocations[bench_id] = effective_job_id; return.
RecordStep(t) ==
    /\ tpc[t] = "record"
    /\ LET b == Head(candidates[t])
       IN  /\ allocations' = Without(allocations, b) @@ (b :> t)
           /\ grants' = [grants EXCEPT ![b] = IF @ < 2 THEN @ + 1 ELSE @]
           /\ tres' = [tres EXCEPT ![t] = [result |-> "granted", bench |-> b]]
    /\ tpc' = [tpc EXCEPT ![t] = "unlock"]
    /\ UNCHANGED <<rm_lock, call, candidates, race, bench_states, marked>>

\* release_resource: the membership test and self._allocations.pop(bench_id).
PopStep(t) ==
    /\ tpc[t] = "pop"
    /\ IF call[t].bench \notin DOMAIN allocations
       THEN Fail(t, "false") /\ UNCHANGED <<allocations, grants, marked>>
       ELSE /\ allocations' = Without(allocations, call[t].bench)
            /\ grants' = [grants EXCEPT ![call[t].bench] = 0]
            /\ tpc' = [tpc EXCEPT ![t] = "available"]
            /\ UNCHANGED tres
    /\ UNCHANGED <<rm_lock, call, candidates, race, bench_states, marked>>

\* release_resource: self._bench_states[bench_id] = AVAILABLE; return True.
AvailableStep(t) ==
    /\ tpc[t] = "available"
    /\ bench_states' = [bench_states EXCEPT ![call[t].bench] = "available"]
    /\ tres' = [tres EXCEPT ![t] = [result |-> "true", bench |-> NoBench]]
    /\ tpc' = [tpc EXCEPT ![t] = "unlock"]
    /\ UNCHANGED <<rm_lock, call, candidates, race, allocations, grants, marked>>

\* set_bench_state: self._bench_states[bench_id] = state.
SetStep(t) ==
    /\ tpc[t] = "set"
    /\ bench_states' = [bench_states EXCEPT ![call[t].bench] = call[t].state]
    /\ marked' = marked \ {call[t].bench}
    /\ IF bench_states[call[t].bench] = "busy" /\ call[t].state # "busy"
       THEN tpc' = [tpc EXCEPT ![t] = "discard"] /\ UNCHANGED tres
       ELSE /\ tres' = [tres EXCEPT ![t] = [result |-> "true", bench |-> NoBench]]
            /\ tpc' = [tpc EXCEPT ![t] = "unlock"]
    /\ UNCHANGED <<rm_lock, call, candidates, race, allocations, grants>>

\* set_bench_state: self._allocations.pop(bench_id, None); return True.
DiscardStep(t) ==
    /\ tpc[t] = "discard"
    /\ allocations' = Without(allocations, call[t].bench)
    /\ grants' = [grants EXCEPT ![call[t].bench] = 0]
    /\ tres' = [tres EXCEPT ![t] = [result |-> "true", bench |-> NoBench]]
    /\ tpc' = [tpc EXCEPT ![t] = "unlock"]
    /\ UNCHANGED <<rm_lock, call, candidates, race, bench_states, marked>>

\* with self._lock: left (on return and on raise alike).
LeaveLock(t) ==
    /\ tpc[t] = "unlock"
    /\ rm_lock' = Unlocked
    /\ tpc' = [tpc EXCEPT ![t] = "idle"]
    /\ call' = [call EXCEPT ![t] = NoThreadCall]
    /\ candidates' = [candidates EXCEPT ![t] = <<>>]
    /\ UNCHANGED <<tres, race, bench_states, allocations, grants, marked>>

ThreadFrame ==
    UNCHANGED <<hardware_type, max_concurrent_jobs, mark_offline_on_failure,
                retry_count, mock_failures, last, tick, freqVars, lockVars,
                healthVars, jobVars, statusVars, arbiterVars>>

IssueCall == (\E t \in Threads, c \in ThreadCalls : Issue(t, c)) /\ ThreadFrame
Enter == (\E t \in Threads : EnterLock(t)) /\ ThreadFrame
Limit == (\E t \in Threads : CheckLimit(t)) /\ ThreadFrame
Find == (\E t \in Threads : FindStep(t)) /\ ThreadFrame
Check == (\E t \in Threads : CheckStep(t)) /\ ThreadFrame
Busy == (\E t \in Threads : BusyStep(t)) /\ ThreadFrame
Record == (\E t \in Threads : RecordStep(t)) /\ ThreadFrame
Pop == (\E t \in Threads : PopStep(t)) /\ ThreadFrame
Available == (\E t \in Threads : AvailableStep(t)) /\ ThreadFrame
Set == (\E t \in Threads : SetStep(t)) /\ ThreadFrame
Discard == (\E t \in Threads : DiscardStep(t)) /\ ThreadFrame
Leave == (\E t \in Threads : LeaveLock(t)) /\ ThreadFrame

\* The steps a thread takes by itself once it has called the manager.
ThreadRun(t) ==
    /\ \/ EnterLock(t) \/ CheckLimit(t) \/ FindStep(t) \/ CheckStep(t)
       \/ BusyStep(t) \/ RecordStep(t) \/ PopStep(t) \/ AvailableStep(t)
       \/ SetStep(t) \/ DiscardStep(t) \/ LeaveLock(t)
    /\ ThreadFrame

\* No thread has called the manager.
IdleThreads ==
    /\ rm_lock = Unlocked
    /\ tpc = [t \in Threads |-> "idle"]
    /\ call = [t \in Threads |-> NoThreadCall]
    /\ candidates = [t \in Threads |-> <<>>]
    /\ tres = [t \in Threads |-> NoResult]
    /\ race = NoRace

-----------------------------------------------------------------------------
(* Threads calling request_frequency and release_frequency of one          *)
(* CoffinInterferenceManager, each thread for the bench it runs. The       *)
(* manager has no lock; a step is one statement.                           *)

\* The bench whose test cycle the thread runs.
CallerBench(t) == IF t = "T1" THEN BenchOrder[1] ELSE BenchOrder[2]

NoFrequencyCall ==
    [pc |-> "idle", op |-> "none", freq |-> "", result |-> "", raced |-> FALSE]

\* No thread has called the frequency manager.
IdleCallers == callers = [t \in Threads |-> NoFrequencyCall]

\* The call of thread t returns (or raises) with the result.
FreqReturn(t, result) ==
    callers' = [callers EXCEPT ![t].pc = "idle", ![t].result = result]

FreqGoto(t, where) == callers' = [callers EXCEPT ![t].pc = where]

\* request_frequency(bench_id, frequency_ghz) is called. The call races when
\* the other thread has called it for the same frequency and has not yet
\* looked at the holder table, the frequency having no holder.
CallRequestFrequency(t, f) ==
    /\ callers[t].pc = "idle"
    /\ LET racing == {u \in Threads \ {t} :
                        /\ callers[u].op = "request" /\ callers[u].pc = "in"
                        /\ callers[u].freq = f
                        /\ f \notin DOMAIN lock_holders}
       IN  callers' = [u \in Threads |->
                         IF u = t
                         THEN [NoFrequencyCall EXCEPT !.pc = "in", !.op = "request",
                                                      !.freq = f,
                                                      !.raced = racing # {}]
                         ELSE IF u \in racing
                              THEN [callers[u] EXCEPT !.raced = TRUE]
                              ELSE callers[u]]
    /\ UNCHANGED freqVars

\* if frequency_ghz in self._lock_holders
HolderTest(t) ==
    /\ callers[t].op = "request" /\ callers[t].pc = "in"
    /\ FreqGoto(t, IF callers[t].freq \in DOMAIN lock_holders
                   THEN "holder" ELSE "write")
    /\ UNCHANGED freqVars

\* holder = self._lock_holders[frequency_ghz]; if holder != bench_id: return False
HolderRead(t) ==
    /\ callers[t].op = "request" /\ callers[t].pc = "holder"
    /\ IF callers[t].freq \notin DOMAIN lock_holders
       THEN FreqReturn(t, "KeyError")
       ELSE IF lock_holders[callers[t].freq] # CallerBench(t)
            THEN FreqReturn(t, "false")
            ELSE FreqGoto(t, "write")
    /\ UNCHANGED freqVars

\* self._lock_holders[frequency_ghz] = bench_id
HolderWrite(t) ==
    /\ callers[t].op = "request" /\ callers[t].pc = "write"
    /\ lock_holders' = (callers[t].freq :> CallerBench(t)) @@ lock_holders
    /\ FreqGoto(t, "record")
    /\ UNCHANGED <<freq_allocations, flast, ftick>>

\* self._allocations[bench_id] = FrequencyAllocation(...); return True
AllocationWrite(t) ==
    /\ callers[t].op = "request" /\ callers[t].pc = "record"
    /\ freq_allocations' = (CallerBench(t) :> callers[t].freq) @@ freq_allocations
    /\ FreqReturn(t, "true")
    /\ UNCHANGED <<lock_holders, flast, ftick>>

\* release_frequency(bench_id) is called.
CallReleaseFrequency(t) ==
    /\ callers[t].pc = "idle"
    /\ callers' = [callers EXCEPT ![t] =
                     [NoFrequencyCall EXCEPT !.pc = "in", !.op = "release"]]
    /\ UNCHANGED freqVars

\* if bench_id in self._allocations: freq = ...frequency_ghz
AllocationRead(t) ==
    /\ callers[t].op = "release" /\ callers[t].pc = "in"
    /\ IF CallerBench(t) \in DOMAIN freq_allocations
       THEN callers' = [callers EXCEPT
                          ![t].pc = "holder",
                          ![t].freq = freq_allocations[CallerBench(t)]]
       ELSE FreqReturn(t, "none")
    /\ UNCHANGED freqVars

\* if freq in self._lock_holders and self._lock_holders[freq] == bench_id
HolderCheck(t) ==
    /\ callers[t].op = "release" /\ callers[t].pc = "holder"
    /\ FreqGoto(t, IF /\ callers[t].freq \in DOMAIN lock_holders
                      /\ lock_holders[callers[t].freq] = CallerBench(t)
                   THEN "delete" ELSE "forget")
    /\ UNCHANGED freqVars

\* del self._lock_holders[freq]
HolderDelete(t) ==
    /\ callers[t].op = "release" /\ callers[t].pc = "delete"
    /\ IF callers[t].freq \in DOMAIN lock_holders
       THEN /\ lock_holders' = Without(lock_holders, callers[t].freq)
            /\ FreqGoto(t, "forget")
       ELSE /\ FreqReturn(t, "KeyError")
            /\ UNCHANGED lock_holders
    /\ UNCHANGED <<freq_allocations, flast, ftick>>

\* del self._allocations[bench_id]
AllocationDelete(t) ==
    /\ callers[t].op = "release" /\ callers[t].pc = "forget"
    /\ freq_allocations' = Without(freq_allocations, CallerBench(t))
    /\ FreqReturn(t, "none")
    /\ UNCHANGED <<lock_holders, flast, ftick>>

ArbiterFrame ==
    UNCHANGED <<rmVars, lockVars, threadVars, healthVars, jobVars, statusVars>>

CallRequest ==
    (\E t \in Threads, f \in Freqs : CallRequestFrequency(t, f)) /\ ArbiterFrame

RequestSteps ==
    /\ \E t \in Threads :
          HolderTest(t) \/ HolderRead(t) \/ HolderWrite(t) \/ AllocationWrite(t)
    /\ ArbiterFrame

CallRelease == (\E t \in Threads : CallReleaseFrequency(t)) /\ ArbiterFrame

ReleaseSteps ==
    /\ \E t \in Threads :
          \/ AllocationRead(t) \/ HolderCheck(t)
          \/ HolderDelete(t) \/ AllocationDelete(t)
    /\ ArbiterFrame

-----------------------------------------------------------------------------
(* A thread calling get_bench_status of the ResourceManager while another  *)
(* thread calls request_resource, release_resource or set_bench_state.     *)
(* get_bench_status does not take self._lock; a step is one statement.     *)

\* dict.get(bench_id) of a bench without allocation.
None == "None"

NoStatus == [pc |-> "idle", bench |-> NoBench, state |-> "", allocated_to |-> None]

\* No get_bench_status call has been made.
IdleStatus == reader = NoStatus

\* The thread that calls the operations that write.
Writer == CHOOSE t \in Threads : TRUE

StatusFrame ==
    UNCHANGED <<rmVars, freqVars, lockVars, threadVars, healthVars, jobVars,
                arbiterVars>>

\* state = self._bench_states.get(bench_id, BenchState.OFFLINE)
ReadState(b) ==
    /\ reader.pc \in {"idle", "done"}
    /\ reader' = [NoStatus EXCEPT !.pc = "state", !.bench = b,
                                  !.state = bench_states[b]]
    /\ StatusFrame

\* job_id = self._allocations.get(bench_id); return the status dictionary.
ReadAllocation ==
    /\ reader.pc = "state"
    /\ reader' = [reader EXCEPT
                    !.pc = "done",
                    !.allocated_to = IF reader.bench \in DOMAIN allocations
                                     THEN allocations[reader.bench]
                                     ELSE None]
    /\ StatusFrame

WriterCall == (\E c \in ThreadCalls : Issue(Writer, c)) /\ ThreadFrame

-----------------------------------------------------------------------------
(* Jobs using one ResourceManager: a job requests a bench under its job id, *)
(* keeps the bench_id of the metadata it got, and releases that bench; an  *)
(* operator overrides bench states with set_bench_state.                   *)

Jobs == {"JOB-1", "JOB-2"}

\* No job holds metadata.
IdleJobs == held = [j \in Jobs |-> NoBench]

\* metadata = rm.request_resource(hardware_type, job_id=j)
JobRequest(j) ==
    /\ held[j] = NoBench
    /\ \E hw \in HwTypes : request_resource(hw, j, FALSE)
    /\ held' = [held EXCEPT ![j] = last'.bench]
    /\ UNCHANGED <<freqVars, lockVars, threadVars, healthVars, statusVars, arbiterVars>>

\* rm.release_resource(metadata.bench_id)
JobRelease(j) ==
    /\ held[j] # NoBench
    /\ release_resource(held[j])
    /\ held' = [held EXCEPT ![j] = NoBench]
    /\ UNCHANGED <<freqVars, lockVars, threadVars, healthVars, statusVars, arbiterVars>>

\* rm.set_bench_state(bench_id, state) by the operator.
Override ==
    /\ \E b \in Benches, s \in BenchState : set_bench_state(b, s)
    /\ UNCHANGED <<freqVars, lockVars, threadVars, healthVars, jobVars, statusVars, arbiterVars>>

-----------------------------------------------------------------------------
(* HealthChecker.check_bench, one invocation of a check function per step. *)
(* A check function passes, fails or raises.                               *)

Outcomes == {"pass", "fail", "raise"}

\* No check_bench call is looked at.
NoHealthRun ==
    [pc |-> "idle", bench |-> NoBench, check |-> 1, attempt |-> 1,
     calls |-> [c \in CheckSet |-> 0], checks |-> <<>>, outcome |-> "",
     healthy |-> TRUE]

IdleHealth == hc = NoHealthRun

\* for attempt in range(1, self.retry_count + 1)
RetriesLeftPlusOne(attempt) == attempt <= retry_count + 1

RetriesLeft(attempt) == attempt <= retry_count

\* for check_name, check_fn, conn_data in checks_to_run: with a break at
\* the first failed check.
ReturnedShortCircuit(passed) ==
    LET c == CheckNames[hc.check]
        more == passed /\ hc.check < Len(CheckNames)
    IN  [hc EXCEPT !.checks = (c :> passed) @@ hc.checks,
                   !.healthy = hc.healthy /\ passed,
                   !.attempt = 1,
                   !.check = IF more THEN @ + 1 ELSE @,
                   !.pc = IF more THEN "run" ELSE "done"]

\* _run_check_with_retry has returned: result.checks[check_name] = passed,
\* result.healthy cleared on a failure; the next check, or the result.
Returned(passed) ==
    LET c == CheckNames[hc.check]
        checks == (c :> passed) @@ hc.checks
    IN  [hc EXCEPT !.checks = checks,
                   !.healthy = hc.healthy /\ passed,
                   !.attempt = 1,
                   !.check = IF hc.check < Len(CheckNames) THEN @ + 1 ELSE @,
                   !.pc = IF hc.check < Len(CheckNames) THEN "run" ELSE "done"]

\* One turn of the retry loop: check_fn is invoked; a pass returns True, a
\* failure or a raised exception is logged and the loop goes on.
InvokeCheck(outcome) ==
    /\ hc.pc = "run"
    /\ RetriesLeft(hc.attempt)
    /\ LET c == CheckNames[hc.check]
           invoked == [hc EXCEPT !.calls[c] = @ + 1, !.outcome = outcome]
       IN  hc' = IF outcome = "pass"
                 THEN [Returned(TRUE) EXCEPT !.calls = invoked.calls,
                                             !.outcome = outcome]
                 ELSE [invoked EXCEPT !.attempt = @ + 1]

\* The retry loop is over without a pass: return False.
RetriesExhausted ==
    /\ hc.pc = "run"
    /\ ~RetriesLeft(hc.attempt)
    /\ hc' = [Returned(FALSE) EXCEPT !.outcome = ""]

HealthFrame == UNCHANGED <<rmVars, freqVars, lockVars, threadVars, jobVars, statusVars, arbiterVars>>

Invoke == (\E outcome \in Outcomes : InvokeCheck(outcome)) /\ HealthFrame

Exhausted == RetriesExhausted /\ HealthFrame

\* check_bench(bench_config) is called on a HealthChecker(retry_count=n).
InitH ==
    /\ hardware_type = ByBench(<<"radar_x_band", "radar_x_band", "radar_s_band">>)
    /\ bench_states = [b \in Benches |-> "available"]
    /\ allocations = <<>>
    /\ max_concurrent_jobs = MaxJobs
    /\ mark_offline_on_failure = TRUE
    /\ retry_count \in 0..MaxRetries
    /\ mock_failures = [b \in Benches |-> {}]
    /\ last = NoCall /\ tick = FALSE
    /\ grants = [b \in Benches |-> 0]
    /\ marked = {}
    /\ InitFreq /\ IdleLock /\ IdleThreads /\ IdleJobs /\ IdleStatus /\ IdleCallers
    /\ hc = [NoHealthRun EXCEPT !.pc = "run", !.bench = BenchOrder[1]]

-----------------------------------------------------------------------------
(* A HealthChecker in mock mode: set_mock_failure, clear_mock_failures and *)
(* check_bench calls, the check functions answering from _mock_failures.   *)

\* The failing_checks lists given to set_mock_failure.
FailingLists == {{}, {"ping_uut"}, {"verify_psu"}, {"ping_uut", "ptp_connectivity"}}

\* What a check function answers in mock mode.
MockOutcome(check, b) == IF CheckFn(check, b) THEN "pass" ELSE "fail"

\* check_bench(bench_config): result = HealthCheckResult(bench_id=bench_id).
StartCheck(b) ==
    /\ hc.pc \in {"idle", "done"}
    /\ hc' = [NoHealthRun EXCEPT !.pc = "run", !.bench = b]
    /\ HealthFrame

\* set_mock_failure(bench_id, failing_checks), between two check_bench calls.
set_mock_failure(b, failing_checks) ==
    /\ hc.pc \in {"idle", "done"}
    /\ mock_failures' = [mock_failures EXCEPT ![b] = failing_checks]

\* clear_mock_failures()
clear_mock_failures ==
    /\ hc.pc \in {"idle", "done"}
    /\ mock_failures' = [b \in Benches |-> {}]

MockFrame ==
    UNCHANGED <<hardware_type, bench_states, allocations, max_concurrent_jobs,
                mark_offline_on_failure, retry_count, last, tick, grants, marked,
                freqVars, lockVars, threadVars, jobVars, statusVars, arbiterVars>>

\* One turn of the retry loop with the mock check function.
InvokeMockCheck ==
    /\ InvokeCheck(MockOutcome(CheckNames[hc.check], hc.bench))
    /\ HealthFrame

SetMockFailure ==
    /\ \E b \in Benches, failing_checks \in FailingLists :
          set_mock_failure(b, failing_checks)
    /\ UNCHANGED hc
    /\ MockFrame

ClearMockFailures == clear_mock_failures /\ UNCHANGED hc /\ MockFrame

\* HealthChecker(retry_count=n, mock_mode=True)
InitM ==
    /\ hardware_type = ByBench(<<"radar_x_band", "radar_x_band", "radar_s_band">>)
    /\ bench_states = [b \in Benches |-> "available"]
    /\ allocations = <<>>
    /\ max_concurrent_jobs = MaxJobs
    /\ mark_offline_on_failure = TRUE
    /\ retry_count \in 0..MaxRetries
    /\ mock_failures = [b \in Benches |-> {}]
    /\ last = NoCall /\ tick = FALSE
    /\ grants = [b \in Benches |-> 0]
    /\ marked = {}
    /\ InitFreq /\ IdleLock /\ IdleThreads /\ IdleHealth /\ IdleJobs /\ IdleStatus /\ IdleCallers

-----------------------------------------------------------------------------
(* Specifications *)

\* The ResourceManager under request_resource, release_resource and
\* set_bench_state, from every configured inventory.
Init == InitRM /\ InitFreq /\ IdleLock /\ IdleThreads /\ IdleHealth /\ IdleJobs /\ IdleStatus /\ IdleCallers

Next == Request \/ Release \/ SetBenchState

Spec == Init /\ [][Next]_vars

\* Only request_resource and release_resource are called.
NextRR == Request \/ Release

SpecRR == Init /\ [][NextRR]_vars

\* The CoffinInterferenceManager under request_frequency and release_frequency.
InitF == IdleRM /\ InitFreq /\ IdleLock /\ IdleThreads /\ IdleHealth /\ IdleJobs /\ IdleStatus /\ IdleCallers

NextFreq == RequestFrequency \/ ReleaseFrequency

SpecFreq == InitF /\ [][NextFreq]_vars

\* The processes sharing one PSU lock file.
InitL == IdleRM /\ InitFreq /\ InitLock /\ IdleThreads /\ IdleHealth /\ IdleJobs /\ IdleStatus /\ IdleCallers

NextLock == LockStep

SpecLock == InitL /\ [][NextLock]_vars

\* The same, where a running process goes on with the acquire() it is in
\* and its clock goes on.
SpecLockFair ==
    /\ SpecLock
    /\ \A p \in Procs : WF_vars(Run(p)) /\ WF_vars(TimePasses(p))

\* Two threads calling one ResourceManager.
InitT ==
    /\ \E inv \in Inventories :
          /\ hardware_type = ByBench(inv.types)
          /\ mock_failures = ByBench(inv.failing)
    /\ bench_states = [b \in Benches |-> "available"]
    /\ allocations = <<>>
    /\ max_concurrent_jobs \in 1..MaxJobs
    /\ mark_offline_on_failure = TRUE
    /\ retry_count = DefaultRetryCount
    /\ last = NoCall /\ tick = FALSE
    /\ grants = [b \in Benches |-> 0]
    /\ marked = {}
    /\ InitFreq /\ IdleLock /\ IdleThreads /\ IdleHealth /\ IdleJobs /\ IdleStatus /\ IdleCallers

NextThreads ==
    \/ IssueCall \/ Enter \/ Limit \/ Find \/ Check \/ Busy \/ Record
    \/ Pop \/ Available \/ Set \/ Discard \/ Leave

SpecThreads == InitT /\ [][NextThreads]_vars

\* Two threads calling one ResourceManager whose x-band benches fail their
\* health check and whose s-band bench passes it; every thread goes on with
\* the call it is in, and a thread waiting for self._lock gets it once it is
\* free often enough.
InitTF ==
    /\ hardware_type = ByBench(<<"radar_x_band", "radar_x_band", "radar_s_band">>)
    /\ mock_failures = ByBench(<<{"ping_uut"}, {"verify_psu"}, {}>>)
    /\ bench_states = [b \in Benches |-> "available"]
    /\ allocations = <<>>
    /\ max_concurrent_jobs \in 1..MaxJobs
    /\ mark_offline_on_failure = TRUE
    /\ retry_count = DefaultRetryCount
    /\ last = NoCall /\ tick = FALSE
    /\ grants = [b \in Benches |-> 0]
    /\ marked = {}
    /\ InitFreq /\ IdleLock /\ IdleThreads /\ IdleHealth /\ IdleJobs /\ IdleStatus /\ IdleCallers

SpecThreadsFair ==
    /\ InitTF
    /\ [][NextThreads]_vars
    /\ \A t \in Threads : SF_vars(ThreadRun(t))

\* One check_bench call, run to its end.
NextHealth == Invoke \/ Exhausted

SpecHealth == InitH /\ [][NextHealth]_vars /\ WF_vars(NextHealth)

\* Two threads calling one CoffinInterferenceManager.
NextArbiter == CallRequest \/ RequestSteps \/ CallRelease \/ ReleaseSteps

SpecArbiter == InitF /\ [][NextArbiter]_vars

\* One thread calling request_resource, release_resource and set_bench_state
\* while another thread calls get_bench_status.
NextStatus ==
    \/ WriterCall \/ Enter \/ Limit \/ Find \/ Check \/ Busy \/ Record
    \/ Pop \/ Available \/ Set \/ Discard \/ Leave
    \/ \E b \in Benches : ReadState(b)
    \/ ReadAllocation

SpecStatus == InitT /\ [][NextStatus]_vars

\* Two jobs and an operator on one ResourceManager with healthy benches.
InitJ == IdleRM /\ InitFreq /\ IdleLock /\ IdleThreads /\ IdleHealth /\ IdleJobs /\ IdleStatus /\ IdleCallers

NextJobs ==
    \/ \E j \in Jobs : JobRequest(j)
    \/ \E j \in Jobs : JobRelease(j)
    \/ Override

SpecJobs == InitJ /\ [][NextJobs]_vars

\* A HealthChecker in mock mode; a check_bench call that has started goes on.
NextMock ==
    \/ SetMockFailure \/ ClearMockFailures
    \/ \E b \in Benches : StartCheck(b)
    \/ InvokeMockCheck \/ Exhausted

SpecMock ==
    InitM /\ [][NextMock]_vars /\ WF_vars(InvokeMockCheck \/ Exhausted)

-----------------------------------------------------------------------------
(* Vocabulary of the properties *)

\* The step is a call of the ResourceManager operation op.
Called(op) == tick' # tick /\ last'.op = op

Position(b) == CHOOSE i \in 1..Len(BenchOrder) : BenchOrder[i] = b

Precedes(a, b) == Position(a) < Position(b)

-----------------------------------------------------------------------------
(* C1: no double allocation. Over every sequence of request_resource and   *)
(* release_resource calls, no bench has two grants that were not ended by  *)
(* a release_resource of that bench.                                       *)

C1_NoDoubleAllocation == \A b \in Benches : grants[b] <= 1

\* Two grants are outstanding at once, on two different benches.
C1_Witness ==
    /\ last.op = "request" /\ last.result = "granted"
    /\ Cardinality({b \in Benches : grants[b] = 1}) = 2

-----------------------------------------------------------------------------
(* C2: bench/allocation invariant. A bench has an allocation record if and *)
(* only if its state is BUSY, from any declared initial inventory and      *)
(* through any request_resource, release_resource and set_bench_state.     *)

C2_AllocationIffBusy ==
    \A b \in Benches : (b \in DOMAIN allocations) <=> (bench_states[b] = "busy")

-----------------------------------------------------------------------------
(* C5: health-gated admission. With mark_offline_on_failure enabled and    *)
(* exactly two AVAILABLE benches of a type, one configured to fail         *)
(* ping_uut and the other healthy, a health-checked request_resource made  *)
(* below the ceiling returns the healthy bench.                            *)

\* u and h are the two candidates of hw: u fails ping_uut, h passes check_bench.
C5_Case(hw, u, h) ==
    /\ mark_offline_on_failure
    /\ ~CeilingReached
    /\ Range(FindCandidates(hw)) = {u, h} /\ u # h
    /\ "ping_uut" \in mock_failures[u]
    /\ CheckBench(h).healthy

C5_Call(hw) == Called("request") /\ last'.hw = hw /\ ~last'.skip

\* As claimed: the unhealthy bench is OFFLINE on return in whichever
\* inventory order the two benches appear.
C5_Original ==
    [][\A hw \in HwTypes, u \in Benches, h \in Benches :
          (C5_Call(hw) /\ C5_Case(hw, u, h))
             => /\ last'.result = "granted" /\ last'.bench = h
                /\ bench_states'[u] = "offline"]_vars

\* Amended: the unhealthy bench is OFFLINE on return when it precedes the
\* healthy one in the inventory; when it follows, it is not health-checked
\* and stays AVAILABLE.
C5_HealthGatedAdmission ==
    [][\A hw \in HwTypes, u \in Benches, h \in Benches :
          (C5_Call(hw) /\ C5_Case(hw, u, h))
             => /\ last'.result = "granted" /\ last'.bench = h
                /\ bench_states'[h] = "busy"
                /\ Precedes(u, h) => bench_states'[u] = "offline"
                /\ Precedes(h, u) => /\ bench_states'[u] = "available"
                                     /\ u \notin Range(last'.checked)]_vars

\* The unhealthy bench came first, failed ping_uut and is OFFLINE; the
\* healthy one after it was granted.
C5_Witness ==
    /\ mark_offline_on_failure
    /\ last.op = "request" /\ last.result = "granted" /\ ~last.skip
    /\ Len(last.checked) = 2
    /\ last.checked[2] = last.bench
    /\ "ping_uut" \in mock_failures[last.checked[1]]
    /\ bench_states[last.checked[1]] = "offline"
    /\ bench_states[last.bench] = "busy"

-----------------------------------------------------------------------------
(* C6: ceiling enforcement. When current_allocations equals                *)
(* max_concurrent_jobs, request_resource fails with the concurrency-limit  *)
(* error for every hardware type and changes no bench state or allocation; *)
(* current_allocations never exceeds max_concurrent_jobs.                  *)

C6_CeilingEnforcement ==
    /\ [](CurrentAllocations <= max_concurrent_jobs)
    /\ [][(Called("request") /\ CurrentAllocations = max_concurrent_jobs)
             => /\ last'.result = "limit"
                /\ UNCHANGED <<bench_states, allocations>>]_vars

\* A request was refused at the ceiling although a bench of the requested
\* type is AVAILABLE.
C6_Witness ==
    /\ last.op = "request" /\ last.result = "limit"
    /\ CurrentAllocations = max_concurrent_jobs
    /\ last.hw \in GetAvailableTypes

-----------------------------------------------------------------------------
(* C10: all-unhealthy. If request_resource health-checks every AVAILABLE   *)
(* candidate of the requested type and each fails at least one check, the  *)
(* call fails with the 'all candidates failed health checks' error, no     *)
(* bench becomes BUSY, current_allocations is unchanged and, with          *)
(* mark_offline_on_failure, every one of those candidates is OFFLINE.      *)

\* Every candidate of hw fails some check of check_bench.
C10_AllFail(hw) ==
    /\ FindCandidates(hw) # <<>>
    /\ \A b \in Range(FindCandidates(hw)) :
          \E c \in CheckSet : ~CheckBench(b).checks[c]

C10_AllUnhealthy ==
    [][\A hw \in HwTypes :
          (Called("request") /\ last'.hw = hw /\ C10_AllFail(hw)
              /\ last'.checked = FindCandidates(hw))
             => /\ last'.result = "all_unhealthy"
                /\ \A b \in Benches :
                      bench_states'[b] = "busy" => bench_states[b] = "busy"
                /\ allocations' = allocations
                /\ mark_offline_on_failure =>
                      \A b \in Range(FindCandidates(hw)) :
                          bench_states'[b] = "offline"]_vars

\* Two candidates failed different checks and both ended OFFLINE.
C10_Witness ==
    /\ last.op = "request" /\ last.result = "all_unhealthy"
    /\ Len(last.checked) = 2
    /\ mock_failures[last.checked[1]] # mock_failures[last.checked[2]]
    /\ retry_count > 0
    /\ \A i \in 1..2 : bench_states[last.checked[i]] = "offline"

-----------------------------------------------------------------------------
(* C7: frequency exclusivity. For benches A and B and a frequency F: while *)
(* A holds F every request_frequency(B, F) returns false, and after        *)
(* release_frequency(A) the next request_frequency(B, F) returns true,     *)
(* whatever request_frequency and release_frequency calls came before.     *)

FCalled(op) == ftick' # ftick /\ flast'.op = op

C7_FrequencyExclusivity ==
    [][\A a \in Benches, b \in Benches, f \in Freqs :
          (a # b /\ FCalled("request") /\ flast'.bench = b /\ flast'.freq = f)
             => /\ f \in HeldBy(a) => flast'.result = FALSE
                /\ (flast.op = "release" /\ flast.bench = a /\ f \in flast.held)
                      => flast'.result = TRUE]_vars

-----------------------------------------------------------------------------
(* C3: mutual exclusion of PSUFileLock across processes. In any            *)
(* interleaving of the steps of acquire() and release() of the processes   *)
(* on one lock file, at most one process at a time has had acquire()       *)
(* return true without having called release() since.                      *)

C3_MutualExclusion == Cardinality(holders \cap Procs) <= 1

-----------------------------------------------------------------------------
(* C4: lock staleness reclaim. An acquire() that finds the recorded pid    *)
(* dead goes on to remove the file; a lock file created by a process that  *)
(* is still alive and has not released is never removed by another         *)
(* process's acquire().                                                    *)

\* c created the lock file at the path, runs, and has not released it.
LiveOwner(c) ==
    /\ c \in Procs /\ c \in alive
    /\ pc[c] \in {"write", "held", "body", "finally"}

\* The step is the os.remove of _force_release by p, and removes a file.
ForceRemoves(p) ==
    /\ pc[p] = "force" /\ pc'[p] = "try"
    /\ lock_file.exists /\ ~lock_file'.exists

C4_StalenessReclaim ==
    [][\A p \in Procs :
          /\ (pc[p] = "probe" /\ pc'[p] \in {"force", "sleep"}
                /\ pid_read[p] \notin alive) => pc'[p] = "force"
          /\ ForceRemoves(p) =>
                ~(lock_file.creator # p /\ LiveOwner(lock_file.creator))]_vars

-----------------------------------------------------------------------------
(* C9: staleness detection fails safe. When the holder's liveness cannot   *)
(* be determined (the file is unreadable, empty or not a number, or the    *)
(* probe ends with a permission error), the lock is treated as held and    *)
(* the lock file is not removed.                                           *)

Undetermined == {"unreadable", "empty", "not_a_number", "permission"}

\* The step is the one in which _is_stale of p returns.
StaleAnswered(p) == pc[p] \in {"read", "probe"} /\ pc'[p] \in {"force", "sleep"}

C9_StalenessFailsSafe ==
    [][\A p \in Procs :
          /\ (StaleAnswered(p) /\ reason'[p] \in Undetermined)
                => pc'[p] = "sleep"
          /\ ForceRemoves(p) => reason[p] \notin Undetermined]_vars

-----------------------------------------------------------------------------
(* C8: In-process mutual exclusion. request_resource, release_resource and *)
(* set_bench_state calls issued concurrently from several threads are      *)
(* serialized by one mutex held for the whole call, health check included; *)
(* two concurrent requests are never granted the same bench, and with a    *)
(* single AVAILABLE bench of a type exactly one of two concurrent requests *)
(* for that type succeeds.                                                 *)

\* A thread is somewhere between the first and the last statement of a call
\* only while it holds self._lock, so at most one thread is.
C8_Serialized == \A t \in Threads : tpc[t] \in Locked => rm_lock = t

\* Benches and allocations change only in a step of the thread holding
\* self._lock, which still holds it afterwards.
C8_WritesUnderLock ==
    (bench_states' # bench_states \/ allocations' # allocations)
        => rm_lock \in Threads /\ rm_lock' = rm_lock

C8_NoSharedGrant ==
    /\ \A b \in Benches : grants[b] <= 1
    /\ \A t, u \in Threads :
          (t # u /\ tres[t].result = "granted" /\ tres[u].result = "granted"
             /\ tpc[t] = "idle" /\ tpc[u] = "idle" /\ race.on)
          => tres[t].bench # tres[u].bench

\* Both requests that raced for the single AVAILABLE bench have returned.
C8_RaceDone == race.on /\ \A t \in Threads : tpc[t] = "idle"

C8_Winners == {t \in Threads : tres[t].result = "granted"}

-----------------------------------------------------------------------------
(* C11: release. release_resource(b) on a bench with no allocation returns *)
(* false and leaves every bench state and allocation unchanged; on an      *)
(* allocated bench it returns true, sets that bench AVAILABLE and removes  *)
(* exactly that one allocation, so a second release_resource(b) directly   *)
(* after returns false and changes nothing.                                *)

C11_Unallocated(b) ==
    /\ last'.result = "false"
    /\ UNCHANGED <<bench_states, allocations>>

C11_Allocated(b) ==
    /\ last'.result = "true"
    /\ bench_states' = [bench_states EXCEPT ![b] = "available"]
    /\ DOMAIN allocations' = DOMAIN allocations \ {b}
    /\ \A x \in DOMAIN allocations' : allocations'[x] = allocations[x]

\* The call before this one was a successful release_resource of the bench.
C11_JustReleased(b) ==
    last.op = "release" /\ last.bench = b /\ last.result = "true"

C11_Release ==
    [][Called("release") =>
          LET b == last'.bench
          IN  /\ b \notin DOMAIN allocations => C11_Unallocated(b)
              /\ b \in DOMAIN allocations => C11_Allocated(b)
              /\ C11_JustReleased(b) => C11_Unallocated(b)]_vars

\* An allocated bench was released while another allocation stays.
C11_Witness ==
    /\ last.op = "release" /\ last.result = "true"
    /\ bench_states[last.bench] = "available"
    /\ last.bench \notin DOMAIN allocations
    /\ allocations # <<>>

-----------------------------------------------------------------------------
(* C12: maintenance exclusion. A bench whose state is MAINTENANCE, OFFLINE *)
(* or BUSY is never granted by request_resource, even when it is the only  *)
(* bench of its hardware type; a request for a type that has no AVAILABLE  *)
(* bench, made below the concurrent job limit, fails with the              *)
(* no-available-bench error and every bench keeps its state.               *)

\* The benches of the type, whatever their state.
C12_OfType(hw) == {b \in Benches : hardware_type[b] = hw}

C12_NoneAvailable(hw) ==
    \A b \in C12_OfType(hw) : bench_states[b] # "available"

-----------------------------------------------------------------------------
(* C13: administrative override. set_bench_state(b, s) on a known bench    *)
(* sets its state to s and returns true; if b was BUSY and s is not BUSY   *)
(* its allocation record is removed and current_allocations drops by one,  *)
(* otherwise the allocations are unchanged; no other bench is affected; on *)
(* an unknown bench id it returns false and changes nothing.               *)

C13_Known(b, s) ==
    /\ last'.result = "true"
    /\ bench_states' = [bench_states EXCEPT ![b] = s]
    /\ IF bench_states[b] = "busy" /\ s # "busy"
       THEN /\ b \notin DOMAIN allocations'
            /\ Cardinality(DOMAIN allocations') = CurrentAllocations - 1
            /\ \A x \in DOMAIN allocations' : allocations'[x] = allocations[x]
       ELSE allocations' = allocations

C13_Unknown ==
    /\ last'.result = "false"
    /\ UNCHANGED <<bench_states, allocations>>

C13_AdministrativeOverride ==
    [][Called("set_state") =>
          IF last'.bench \in Benches
          THEN C13_Known(last'.bench, last'.state)
          ELSE C13_Unknown]_vars

-----------------------------------------------------------------------------
(* C14: OFFLINE is sticky. A bench marked OFFLINE by a failed health check *)
(* (mark_offline_on_failure enabled) stays OFFLINE through every later     *)
(* request_resource and release_resource call, and is neither              *)
(* health-checked again nor granted, until a set_bench_state call changes  *)
(* its state.                                                              *)

C14_StaysOffline(b) ==
    /\ bench_states'[b] = "offline"
    /\ b \notin DOMAIN allocations'
    /\ b \notin Range(last'.checked)
    /\ ~(last'.result = "granted" /\ last'.bench = b)

C14_OfflineIsSticky ==
    /\ [](\A b \in marked : bench_states[b] = "offline")
    /\ [][(Called("request") \/ Called("release")) =>
             \A b \in marked : C14_StaysOffline(b)]_vars

\* A request for the type of a bench that an earlier request marked OFFLINE
\* has run its health checks without looking at that bench.
C14_Witness ==
    \E b \in marked :
        /\ last.op = "request" /\ ~last.skip
        /\ last.hw = hardware_type[b]
        /\ last.checked # <<>>
        /\ b \notin Range(last.checked)

-----------------------------------------------------------------------------
(* C15: scoped lock acquisition. A non-simulated _scpi_session releases    *)
(* the file lock on every exit path that follows a successful acquire      *)
(* (normal completion of the body, an exception raised in the body,        *)
(* failure to open the socket), so the lock file it created is gone when   *)
(* the session ends; when acquire() times out it raises TimeoutError       *)
(* without running the body and without removing the lock file.            *)

C15_ExitPaths == {"normal", "exception", "socket"}

\* The session of the process has ended after a successful acquire().
C15_Ended(p) == pc[p] = "idle" /\ path[p] \in C15_ExitPaths

C15_Released(p) ==
    /\ ~(lock_file.exists /\ lock_file.creator = p)
    /\ ~fd[p]
    /\ p \notin holders

\* The finally clause is left only into release().
C15_FinallyReleases(p) ==
    (pc[p] = "finally" /\ pc'[p] \notin {"finally", "crashed"})
        => pc'[p] = "exists"

\* The step on which acquire() returns False.
C15_TimesOut(p) == path[p] # "timeout" /\ path'[p] = "timeout"

-----------------------------------------------------------------------------
(* C17: PSUFileLock.release() is idempotent and never raises. Called a     *)
(* second time, or without a prior acquire, with no other process acting   *)
(* in between, it raises nothing and leaves the lock as it was after the   *)
(* first release: free.                                                    *)

\* The step is a step of release() in the process.
C17_ReleaseStep(p) ==
    \/ pc[p] \in {"finally", "idle"} /\ pc'[p] = "exists"
    \/ pc[p] = "exists" /\ pc'[p] \in {"remove", "idle"}
    \/ pc[p] = "remove" /\ pc'[p] = "idle"

\* The step on which release() returns.
C17_Returns(p) == pc[p] \in {"exists", "remove"} /\ pc'[p] = "idle"

\* The lock as a release() leaves it: no file, no descriptor, not a holder.
C17_Free(p) == ~lock_file.exists /\ ~fd[p] /\ p \notin holders

-----------------------------------------------------------------------------
(* C16: the cross-process lock never deadlocks. acquire() always returns,  *)
(* with true once it has created the lock file, or with false once the     *)
(* timeout has elapsed while a live holder kept the lock; and if the       *)
(* holder crashed without releasing, a waiting acquire() eventually        *)
(* removes the stale file and returns true.                                *)

C16_InAcquire == {"try", "write", "read", "probe", "force", "sleep"}

\* The file at the lock path was left by a process that is gone.
C16_StaleFile == lock_file.exists /\ lock_file.creator \notin alive

\* The step on which acquire() returns False.
C16_ReturnsFalse(p) == path[p] # "timeout" /\ path'[p] = "timeout"

\* The step on which acquire() returns True.
C16_ReturnsTrue(p) == pc[p] \in C16_InAcquire /\ pc'[p] = "held"

C16_Reclaims(p) ==
    /\ (pc[p] = "probe" /\ pid_read[p] \notin alive /\ pc'[p] \notin {"probe", "crashed"})
          => pc'[p] = "force"
    /\ (pc[p] = "force" /\ pc'[p] \notin {"force", "crashed"})
          => ~lock_file'.exists /\ pc'[p] = "try"

-----------------------------------------------------------------------------
(* C18: request_frequency(b, f) returns true exactly when f has no current *)
(* holder or its holder is b; a repeated request by the holder for the     *)
(* frequency it holds is an idempotent re-grant that leaves the arbiter    *)
(* state unchanged, and a denied request returns false and changes neither *)
(* the holder table nor the allocation table.                              *)

C18_Grantable(b, f) == f \notin DOMAIN lock_holders \/ lock_holders[f] = b

C18_Holds(b, f) == f \in DOMAIN lock_holders /\ lock_holders[f] = b

C18_RequestFrequency ==
    [][FCalled("request") =>
          LET b == flast'.bench
              f == flast'.freq
          IN  /\ flast'.result = C18_Grantable(b, f)
              /\ C18_Holds(b, f) => UNCHANGED <<freq_allocations, lock_holders>>
              /\ ~flast'.result => UNCHANGED <<freq_allocations, lock_holders>>]_vars

-----------------------------------------------------------------------------
(* C19: release_frequency(b) removes a frequency's holder entry only when  *)
(* b is the recorded holder of that frequency; for a bench with no         *)
(* allocation it changes nothing, and it never frees a frequency held by   *)
(* a different bench.                                                      *)

C19_ReleaseFrequency ==
    [][FCalled("release") =>
          LET b == flast'.bench
          IN  /\ \A f \in DOMAIN lock_holders :
                    IF lock_holders[f] = b
                    THEN f \in DOMAIN lock_holders' => lock_holders'[f] = b
                    ELSE /\ f \in DOMAIN lock_holders'
                         /\ lock_holders'[f] = lock_holders[f]
              /\ DOMAIN lock_holders' \subseteq DOMAIN lock_holders
              /\ b \notin DOMAIN freq_allocations =>
                    UNCHANGED <<freq_allocations, lock_holders>>
              /\ \A x \in DOMAIN freq_allocations \ {b} :
                    /\ x \in DOMAIN freq_allocations'
                    /\ freq_allocations'[x] = freq_allocations[x]]_vars

\* A bench released the frequency it held while another bench keeps its own.
C19_Witness ==
    /\ flast.op = "release" /\ flast.held # {}
    /\ flast.held \cap DOMAIN lock_holders = {}
    /\ \E f \in DOMAIN lock_holders : lock_holders[f] # flast.bench

-----------------------------------------------------------------------------
(* C20: per-check retry. Each health check is invoked at most retry_count  *)
(* times and is not invoked again after its first passing attempt; an      *)
(* attempt that raises an exception counts as one failed attempt and is    *)
(* not propagated, so check_bench always returns a HealthCheckResult.      *)

\* The step invokes the check function of check c.
C20_Invokes(c) == hc'.calls[c] # hc.calls[c]

C20_OneFailedAttempt ==
    /\ hc'.pc = "run"
    /\ hc'.check = hc.check
    /\ hc'.attempt = hc.attempt + 1
    /\ hc'.checks = hc.checks
    /\ hc'.calls[CheckNames[hc.check]] = hc.calls[CheckNames[hc.check]] + 1

\* check_bench has returned its HealthCheckResult.
C20_Result ==
    /\ DOMAIN hc.checks = CheckSet
    /\ hc.healthy = (\A c \in CheckSet : hc.checks[c])

-----------------------------------------------------------------------------
(* C21: check_bench always runs all three named checks, also after an      *)
(* earlier one has failed, records one verdict per check, and sets healthy *)
(* to the conjunction of the three verdicts; a failure injected for one    *)
(* bench id does not change the verdict of any other bench.                *)

\* The step ends the retry loop of the check in turn with its verdict.
C21_Records == hc.pc = "run" /\ DOMAIN hc'.checks # DOMAIN hc.checks

\* The verdict of the check in turn is added, the verdicts before it stay, and
\* the next check is in turn whatever the verdict; after the third, the result.
C21_NextCheck ==
    /\ CheckNames[hc.check] \notin DOMAIN hc.checks
    /\ DOMAIN hc'.checks = DOMAIN hc.checks \cup {CheckNames[hc.check]}
    /\ \A c \in DOMAIN hc.checks : hc'.checks[c] = hc.checks[c]
    /\ IF hc.check < Len(CheckNames)
       THEN hc'.pc = "run" /\ hc'.check = hc.check + 1
       ELSE hc'.pc = "done"

\* The HealthCheckResult that check_bench returns.
C21_Result ==
    /\ DOMAIN hc.checks = CheckSet
    /\ hc.healthy = (\A c \in CheckSet : hc.checks[c])
    /\ \A c \in CheckSet : hc.checks[c] => c \notin mock_failures[hc.bench]

C21_RunsAllChecks ==
    /\ [][C21_Records => C21_NextCheck]_vars
    /\ [][(hc.pc = "run" /\ hc'.pc = "done") => C21_Result']_vars
    /\ [][\A x \in Benches :
             mock_failures'[x] = mock_failures[x] =>
                CheckBench(x)' = CheckBench(x)]_vars
    /\ (hc.pc = "run") ~> (hc.pc = "done")

\* A bench failed its first check, passed the two after it, and passed
\* verify_psu while a failure of verify_psu is injected for another bench.
C21_Witness ==
    /\ hc.pc = "done" /\ ~hc.healthy
    /\ ~hc.checks["ping_uut"]
    /\ hc.checks["verify_psu"] /\ hc.checks["ptp_connectivity"]
    /\ hc.calls["verify_psu"] = 1
    /\ \E x \in Benches \ {hc.bench} : "verify_psu" \in mock_failures[x]

-----------------------------------------------------------------------------
(* C22: no matching bench. When the ceiling is not reached and no bench of *)
(* the requested hardware type is AVAILABLE, request_resource fails with   *)
(* the 'no available bench' error, whose diagnostic list is exactly the    *)
(* set of hardware types that currently have at least one AVAILABLE bench, *)
(* and all bench states and allocations are unchanged.                     *)

C22_HasAvailable(hw) ==
    \E b \in Benches : hardware_type[b] = hw /\ bench_states[b] = "available"

C22_BelowCeiling == Cardinality(DOMAIN allocations) < max_concurrent_jobs

C22_NoMatchingBench ==
    [][(Called("request") /\ C22_BelowCeiling /\ ~C22_HasAvailable(last'.hw)) =>
          /\ last'.result = "no_available"
          /\ last'.types = {hw \in HwTypes : C22_HasAvailable(hw)}
          /\ bench_states' = bench_states
          /\ allocations' = allocations]_vars

\* The request was refused for want of an x-band bench, one x-band bench
\* being allocated and another in maintenance, while the s-band bench is free.
C22_Witness ==
    /\ last.op = "request" /\ last.result = "no_available"
    /\ last.hw = "radar_x_band"
    /\ last.types = {"radar_s_band"}
    /\ \E b \in DOMAIN allocations : hardware_type[b] = "radar_x_band"
    /\ \E b \in Benches :
          hardware_type[b] = "radar_x_band" /\ bench_states[b] = "maintenance"

-----------------------------------------------------------------------------
(* C23: first match wins. request_resource grants the first bench, in      *)
(* inventory order, among the AVAILABLE benches of the requested type that *)
(* passes its health check (with skip_health_check every candidate counts  *)
(* as passing, no health check runs and the metadata carries no health     *)
(* result); candidates after the granted bench are not health-checked and  *)
(* keep their state; the returned metadata names exactly the bench that    *)
(* was just marked BUSY.                                                   *)

\* The AVAILABLE benches of the type before the call.
C23_Candidates(hw) ==
    {b \in Benches : hardware_type[b] = hw /\ bench_states[b] = "available"}

\* The bench passes its health check: every probe passes within the attempts.
C23_Healthy(b) == retry_count >= 1 /\ mock_failures[b] = {}

C23_Passes(b, skip) == skip \/ C23_Healthy(b)

C23_Granted(g, hw, skip) ==
    /\ g \in C23_Candidates(hw)
    /\ C23_Passes(g, skip)
    /\ \A b \in C23_Candidates(hw) : Precedes(b, g) => ~C23_Passes(b, skip)
    /\ IF skip
       THEN last'.checked = <<>> /\ last'.health = "none"
       ELSE /\ last'.health = "healthy"
            /\ Range(last'.checked) =
                  {b \in C23_Candidates(hw) : ~Precedes(g, b)}
    /\ \A b \in C23_Candidates(hw) :
          Precedes(g, b) =>
             /\ b \notin Range(last'.checked)
             /\ bench_states'[b] = bench_states[b]
    /\ {b \in Benches : bench_states'[b] = "busy" /\ bench_states[b] # "busy"}
          = {g}

C23_FirstMatchWins ==
    [][Called("request") =>
          /\ last'.result = "granted" =>
                C23_Granted(last'.bench, last'.hw, last'.skip)
          /\ (/\ Cardinality(DOMAIN allocations) < max_concurrent_jobs
              /\ \E b \in C23_Candidates(last'.hw) : C23_Passes(b, last'.skip))
                => last'.result = "granted"]_vars

\* A health-checked grant of a bench whose successor of the same type,
\* configured to fail, was not checked and is still AVAILABLE.
C23_Witness ==
    /\ last.op = "request" /\ last.result = "granted" /\ ~last.skip
    /\ last.checked = <<last.bench>>
    /\ retry_count >= 1
    /\ \E b \in Benches :
          /\ Precedes(last.bench, b)
          /\ hardware_type[b] = last.hw
          /\ bench_states[b] = "available"
          /\ mock_failures[b] # {}

-----------------------------------------------------------------------------
(* C24: every request_resource call terminates with either metadata or a   *)
(* ResourceAllocationError, and the internal mutex is released on every    *)
(* exit path (grant, concurrency-limit error, no-matching-bench error,     *)
(* all-unhealthy error), so a later request_resource, release_resource or  *)
(* set_bench_state call from any thread always proceeds.                   *)

C24_RequestResults == {"granted", "limit", "no_available", "all_unhealthy"}

\* The step is the return (or raise) of the call of thread t.
C24_Exit(t) == tpc[t] # "idle" /\ tpc'[t] = "idle"

C24_ExitReleases ==
    \A t \in Threads :
       C24_Exit(t) =>
          /\ rm_lock' = Unlocked
          /\ call[t].op = "request" =>
                /\ tres'[t].result \in C24_RequestResults
                /\ (tres'[t].result = "granted") = (tres'[t].bench # NoBench)

-----------------------------------------------------------------------------
(* C25: retry_count is the number of retries after the first attempt. For  *)
(* every configured retry_count >= 0, including 0, each check is attempted *)
(* at least once, so check_bench reports a bench whose probes all pass as  *)
(* healthy and request_resource does not mark it OFFLINE.                  *)

\* Every probe of the bench passes.
C25_ProbesPass(b) == \A c \in CheckSet : CheckFn(c, b)

C25_RetriesAfterFirstAttempt ==
    [][(Called("request") /\ ~last'.skip) =>
          \A b \in Range(last'.checked) :
             C25_ProbesPass(b) =>
                /\ CheckBench(b).healthy
                /\ bench_states'[b] # "offline"
                /\ last'.result = "granted" /\ last'.bench = b]_vars

-----------------------------------------------------------------------------
(* C26: in every reachable state of CoffinInterferenceManager the holder   *)
(* table and the allocation table agree: frequency f has holder b if and   *)
(* only if bench b's allocation record is for f; hence each bench holds at *)
(* most one frequency, and is_frequency_available(f) is false exactly when *)
(* get_active_allocations() maps some bench to f.                          *)

C26_HolderOf(f, b) == f \in DOMAIN lock_holders /\ lock_holders[f] = b

C26_RecordFor(b, f) ==
    b \in DOMAIN get_active_allocations /\ get_active_allocations[b] = f

C26_TablesAgree ==
    /\ \A f \in Freqs, b \in Benches : C26_HolderOf(f, b) <=> C26_RecordFor(b, f)
    /\ \A b \in Benches : Cardinality(HeldBy(b)) <= 1
    /\ \A f \in Freqs :
          ~is_frequency_available(f) <=> \E b \in Benches : C26_RecordFor(b, f)

-----------------------------------------------------------------------------
(* C27: release_resource(b) called by a job whose allocation of b was      *)
(* already discarded by a set_bench_state override does not end an         *)
(* allocation of b that was granted afterwards to a different job: a job's *)
(* allocation ends only through a release by that job or through           *)
(* set_bench_state.                                                        *)

\* The step ends the allocation of bench b.
C27_Ends(b) == b \in DOMAIN allocations /\ b \notin DOMAIN allocations'

\* The step is release_resource(b) called by job j.
C27_ReleasedBy(j, b) ==
    /\ Called("release") /\ last'.bench = b
    /\ held[j] = b /\ held'[j] = NoBench

C27_OwnerEndsAllocation ==
    [][\A b \in Benches :
          C27_Ends(b) =>
             \/ Called("set_state") /\ last'.bench = b
             \/ C27_ReleasedBy(allocations[b], b)]_vars

-----------------------------------------------------------------------------
(* C28: PSUFileLock.release() removes the lock file only when the calling  *)
(* lock object currently holds the lock: a release() by a process that     *)
(* does not hold it (it never acquired, its acquire timed out, or it       *)
(* already released and another process acquired since) leaves the other   *)
(* holder's lock file in place.                                            *)

\* The step is the last one of a release() that process p called while it
\* did not hold the lock.
C28_NonHolderReleases(p) ==
    /\ pc[p] \in {"exists", "remove"} /\ pc'[p] = "idle"
    /\ path[p] = "bare"

\* Another process holds the lock and the file at the lock path is its own.
C28_HeldByOther(p) ==
    /\ lock_file.exists
    /\ \E q \in holders \ {p} : lock_file.creator = q /\ pc[q] \in {"held", "body"}

C28_ReleaseOnlyOwnLock ==
    [][\A p \in Procs :
          (C28_NonHolderReleases(p) /\ C28_HeldByOther(p)) =>
             lock_file' = lock_file]_vars

-----------------------------------------------------------------------------
(* C29: a get_bench_status or get_all_bench_statuses call running          *)
(* concurrently with request_resource, release_resource or set_bench_state *)
(* on another thread never reports an inconsistent bench: in every status  *)
(* it returns, allocated_to is non-null if and only if state is 'busy'.    *)

C29_ConsistentStatus ==
    reader.pc = "done" =>
       ((reader.allocated_to # None) <=> (reader.state = "busy"))

-----------------------------------------------------------------------------
(* C30: frequency exclusivity under concurrent callers. When two threads   *)
(* call request_frequency concurrently for the same free frequency on      *)
(* behalf of two different benches, at most one of the two calls returns   *)
(* true and the frequency ends with a single holder that matches the       *)
(* allocation table.                                                       *)

\* Both calls of a race have returned and no other call was made since.
C30_RaceOver ==
    \A t \in Threads :
       /\ callers[t].pc = "idle" /\ callers[t].op = "request"
       /\ callers[t].raced

\* The benches whose allocation record is for the frequency.
C30_RecordedFor(f) ==
    {b \in DOMAIN freq_allocations : freq_allocations[b] = f}

C30_ConcurrentExclusivity ==
    C30_RaceOver =>
       /\ Cardinality({t \in Threads : callers[t].result = "true"}) <= 1
       /\ \A f \in {callers[t].freq : t \in Threads} :
             /\ f \in DOMAIN lock_holders
             /\ C30_RecordedFor(f) = {lock_holders[f]}

====
